---- MODULE Spec2Model ----
(***************************************************************************)
(* A model of dev-mcp: an MCP server exposing read-only query tools for    *)
(* PostgreSQL, ClickHouse, GraphQL (Hasura) and BigQuery.                  *)
(*                                                                         *)
(*   SpecTimeout  the timeout resolver (src/shared/timeout.ts)             *)
(*   SpecFormat   the response formatter and result spooler                *)
(*                (src/shared/result-file.ts: result-file + formatter)     *)
(*   Spec         the process: startup, the four tool handlers, shutdown   *)
(***************************************************************************)
EXTENDS Integers, Sequences, FiniteSets, TLC

VARIABLES
    tIn,        \* SpecTimeout: the argument handed to resolveTimeout
    tOut,       \* SpecTimeout: [done, v]: whether it returned, and its result
    fIn,        \* SpecFormat: the FormatOptions and the environment of one call
    fOut,       \* SpecFormat: the outcome of formatToolResponse, NONE before
    files,      \* the results directory: file name -> mtime
    now,        \* the clock (Date.now()), in ms
    config,     \* Spec: the backends whose configuration is present
    proc,       \* Spec: the process: startup position, registered tools, exit code
    bq,         \* Spec: what the warehouse startup check saw, and bqClient
    shut,       \* Spec: shuttingDown and the position of the shutdown sequence
    pool,       \* Spec: the pg Pool and its connections
    ch,         \* Spec: the ClickHouse sharedClient
    inv,        \* Spec: the tool invocations in flight or returned
    calls,      \* Spec: the number of invocations started
    sw          \* SpecSweep: the formatting calls of the processes sharing RESULTS_DIR

NONE == "none"

\* ------------------------------------------------------------ bounds

\* Fractional inputs are multiples of 1/Scale.
Scale == 10
\* Integer inputs are taken within Span of each constant of the code.
Span == 2

\* --------------------------------------------------- program constants

DEFAULT_TIMEOUT_MS == 30000
MIN_TIMEOUT_MS == 1000
MAX_TIMEOUT_MS == 300000

\* ====================================================================
\* Timeout resolver
\* ====================================================================

\* A JavaScript value handed as timeoutMs: undefined, a non-number, or a
\* number: NaN, +Infinity, -Infinity, or the finite number num / Scale.
Undefined == [kind |-> "undefined", num |-> 0]
NonNumber == [kind |-> "nonNumber", num |-> 0]
NaN == [kind |-> "NaN", num |-> 0]
PosInf == [kind |-> "posInf", num |-> 0]
NegInf == [kind |-> "negInf", num |-> 0]
Finite(n) == [kind |-> "finite", num |-> n]
Whole(k) == Finite(k * Scale)

IsNumber(v) == v.kind \in {"NaN", "posInf", "negInf", "finite"}

\* Math.trunc on a finite number n / Scale: the integer part, toward zero.
MathTrunc(n) == IF n >= 0 THEN n \div Scale ELSE -((-n) \div Scale)

\* Math.round, for comparison: the nearest integer, halves toward +Infinity.
MathRound(n) == (2 * n + Scale) \div (2 * Scale)

resolveTimeout_rounds(timeoutMs) ==
    IF ~IsNumber(timeoutMs) \/ timeoutMs.kind = "NaN" THEN DEFAULT_TIMEOUT_MS
    ELSE IF timeoutMs.kind = "negInf" THEN MIN_TIMEOUT_MS
    ELSE IF timeoutMs.kind = "posInf" THEN MAX_TIMEOUT_MS
    ELSE LET clamped == MathRound(timeoutMs.num)
         IN  IF clamped < MIN_TIMEOUT_MS THEN MIN_TIMEOUT_MS
             ELSE IF clamped > MAX_TIMEOUT_MS THEN MAX_TIMEOUT_MS
             ELSE clamped

\* typeof timeoutMs !== 'number' || Number.isNaN(timeoutMs) gives the default;
\* Math.trunc(+-Infinity) is +-Infinity, which the comparisons then clamp.
resolveTimeout(timeoutMs) ==
    IF ~IsNumber(timeoutMs) \/ timeoutMs.kind = "NaN" THEN DEFAULT_TIMEOUT_MS
    ELSE IF timeoutMs.kind = "negInf" THEN MIN_TIMEOUT_MS
    ELSE IF timeoutMs.kind = "posInf" THEN MAX_TIMEOUT_MS
    ELSE LET clamped == MathTrunc(timeoutMs.num)
         IN  IF clamped < MIN_TIMEOUT_MS THEN MIN_TIMEOUT_MS
             ELSE IF clamped > MAX_TIMEOUT_MS THEN MAX_TIMEOUT_MS
             ELSE clamped

\* The integers the inputs are built around, and the fractions added to them.
TimeoutKeys ==
    {c + d : c \in {0, MIN_TIMEOUT_MS, DEFAULT_TIMEOUT_MS, MAX_TIMEOUT_MS},
             d \in (-Span)..Span}
    \cup {5, 1500, 999999}
TimeoutFractions == {0, 3, 7}

TimeoutInputs ==
    {Undefined, NonNumber, NaN, PosInf, NegInf}
    \cup {Finite(s * (k * Scale + f)) :
            k \in TimeoutKeys, f \in TimeoutFractions, s \in {1, -1}}

\* ====================================================================
\* Strings and JSON values
\* ====================================================================

\* A string is a sequence of runs [cls, n]: n >= 1 characters of one class.
\* Every class is one UTF-16 code unit (what String.length counts); the
\* classes differ in their UTF-8 width and in how JSON.stringify writes them.
\*   "ascii"  1 byte            "nl"    a line feed, 1 byte, escaped as \n
\*   "bmp2"   2 bytes (e.g. e-acute)   "bmp3"  3 bytes (e.g. the ellipsis)
Run(cls, n) == IF n > 0 THEN << [cls |-> cls, n |-> n] >> ELSE << >>
Ascii(n) == Run("ascii", n)
ELLIPSIS == Run("bmp3", 1)

Utf8Width(cls) == CASE cls = "bmp2" -> 2 [] cls = "bmp3" -> 3 [] OTHER -> 1
EscapedUnits(cls) == IF cls = "nl" THEN 2 ELSE 1

\* The sum of s[lo..hi], by halves.
RECURSIVE SumRange(_, _, _)
SumRange(s, lo, hi) ==
    IF lo > hi THEN 0
    ELSE IF lo = hi THEN s[lo]
    ELSE LET mid == (lo + hi) \div 2
         IN  SumRange(s, lo, mid) + SumRange(s, mid + 1, hi)
SumSeq(s) == SumRange(s, 1, Len(s))

\* String.prototype.length: UTF-16 code units.
StrLength(s) == SumSeq([i \in 1..Len(s) |-> s[i].n])
\* Buffer.byteLength(s, 'utf8').
StrBytes(s) == SumSeq([i \in 1..Len(s) |-> s[i].n * Utf8Width(s[i].cls)])
\* The number of line feeds in s.
StrNewlines(s) == SumSeq([i \in 1..Len(s) |-> IF s[i].cls = "nl" THEN s[i].n ELSE 0])

\* s.slice(0, k)
RECURSIVE StrSlice(_, _)
StrSlice(s, k) ==
    IF k <= 0 \/ s = << >> THEN << >>
    ELSE IF Head(s).n >= k THEN << [cls |-> Head(s).cls, n |-> k] >>
    ELSE << Head(s) >> \o StrSlice(Tail(s), k - Head(s).n)

\* A property name or a literal of the code, as a string of the model.
Lit(text) == Ascii(Len(text))

\* JSON values: strings, numbers (d: the length of the numeral), null,
\* arrays, and objects with ordered fields [k: name, v: value].
JStr(s) == [t |-> "str", s |-> s]
JNum(d) == [t |-> "num", d |-> d]
JNull == [t |-> "null"]
JArr(items) == [t |-> "arr", items |-> items]
JObj(fields) == [t |-> "obj", fields |-> fields]
Field(k, v) == [k |-> k, v |-> v]

\* The length of JSON.stringify(v): in UTF-16 code units (bytes = FALSE),
\* which is what serialized.length is, or in UTF-8 bytes (bytes = TRUE).
QuotedSize(s, bytes) ==
    2 + SumSeq([i \in 1..Len(s) |->
            s[i].n * (IF bytes THEN EscapedUnits(s[i].cls) + Utf8Width(s[i].cls) - 1
                      ELSE EscapedUnits(s[i].cls))])

RECURSIVE JsonSize(_, _)
JsonSize(v, bytes) ==
    CASE v.t = "str" -> QuotedSize(v.s, bytes)
      [] v.t = "num" -> v.d
      [] v.t = "null" -> 4
      [] v.t = "arr" ->
            2 + (IF Len(v.items) > 0 THEN Len(v.items) - 1 ELSE 0)
              + SumSeq([i \in 1..Len(v.items) |-> JsonSize(v.items[i], bytes)])
      [] v.t = "obj" ->
            2 + (IF Len(v.fields) > 0 THEN Len(v.fields) - 1 ELSE 0)
              + SumSeq([i \in 1..Len(v.fields) |->
                    Len(v.fields[i].k) + 3 + JsonSize(v.fields[i].v, bytes)])

\* Object.keys(row) and row[col]; a missing key reads as undefined, which the
\* cell renderers treat exactly as null.
ObjectKeys(row) == [i \in 1..Len(row.fields) |-> row.fields[i].k]
HasKey(row, col) == \E i \in 1..Len(row.fields) : row.fields[i].k = col
Get(row, col) ==
    IF HasKey(row, col)
    THEN row.fields[CHOOSE i \in 1..Len(row.fields) : row.fields[i].k = col].v
    ELSE JNull

\* String(value) for a cell value that is not null or undefined.
StringOf(v) == IF v.t = "str" THEN v.s ELSE IF v.t = "num" THEN Ascii(v.d) ELSE Lit("null")
\* The value undefined, where an optional value is absent.
JUndefined == [t |-> "undefined"]

\* ====================================================================
\* Result spooler (result-file.ts)
\* ====================================================================

MAX_AGE_MS == 3600000

\* A file of RESULTS_DIR is named `${toolName}-${ts}-${hash}.json`.
FileName(toolName, ts, hash) == [tool |-> toolName, ts |-> ts, hash |-> hash]
NoFile == FileName("", -1, -1)

\* The first 8 hex digits of md5(JSON.stringify(data)): a number that the
\* content determines, here the serialization's size in bytes (below 16^8).
ContentHash(data) == JsonSize(data, TRUE)

\* What the file system does to one call (chosen by the environment):
\*   mkdir      mkdirSync(RESULTS_DIR) throws
\*   write      "ok", "open" (writeFileSync throws before the file exists) or
\*              "data" (it throws after creating the file, e.g. disk full)
\*   readdir    readdirSync throws
\*   entryFails the entries whose statSync or unlinkSync throws
FsOk == [mkdir |-> FALSE, write |-> "ok", readdir |-> FALSE, entryFails |-> {}]

\* writeResultFile: [threw, filepath, files]. No try/catch: an exception of
\* mkdirSync or writeFileSync leaves the function.
writeResultFile(toolName, data, fs, clock, env) ==
    LET filepath == FileName(toolName, clock, ContentHash(data))
        written == [f \in DOMAIN fs \cup {filepath} |->
                        IF f = filepath THEN clock ELSE fs[f]]
    IN  IF env.mkdir THEN [threw |-> TRUE, filepath |-> NoFile, files |-> fs]
        ELSE IF env.write = "open" THEN [threw |-> TRUE, filepath |-> NoFile, files |-> fs]
        ELSE IF env.write = "data" THEN [threw |-> TRUE, filepath |-> NoFile, files |-> written]
        ELSE [threw |-> FALSE, filepath |-> filepath, files |-> written]

\* cleanupOldFiles: the directory after the sweep. It never throws: the outer
\* try swallows mkdir/readdir failures, the inner one each entry's failure.
cleanupOldFiles(fs, clock, env) ==
    IF env.mkdir \/ env.readdir THEN fs
    ELSE LET kept == {f \in DOMAIN fs :
                        f \in env.entryFails \/ ~(clock - fs[f] > MAX_AGE_MS)}
         IN  [f \in kept |-> fs[f]]

\* ====================================================================
\* Response formatter (formatter.ts, in two variants)
\* ====================================================================

MAX_RESULT_BYTES == 51200
MAX_TABLE_ROWS == 200
MAX_CELL_WIDTH == 80

\* The capped variant's cell: '' for null/undefined, cut to 79 characters and
\* an ellipsis when longer than MAX_CELL_WIDTH.
truncateCell(value) ==
    LET str == IF value.t \in {"null", "undefined"} THEN << >> ELSE StringOf(value)
    IN  IF StrLength(str) > MAX_CELL_WIDTH
        THEN StrSlice(str, MAX_CELL_WIDTH - 1) \o ELLIPSIS
        ELSE str

\* The uncapped variant's cell.
cellToString(value) ==
    IF value.t \in {"null", "undefined"} THEN << >> ELSE StringOf(value)

\* A table is the array `lines` before lines.join('\n'): one item per element,
\* each with the strings it interpolates (cells) and, for the summary, the
\* count it states (more).
Item(kind, cells, more) == [kind |-> kind, cells |-> cells, more |-> more]
NoRowsTable == << Item("norows", << >>, 0) >>
HeaderItem(columns) == Item("header", [i \in 1..Len(columns) |-> Lit(columns[i])], 0)
SeparatorItem(columns) == Item("separator", [i \in 1..Len(columns) |-> Lit("---")], 0)

\* The number of text lines of the joined table: an item is one line plus one
\* per line feed inside its cells.
ItemLines(item) == 1 + SumSeq([i \in 1..Len(item.cells) |-> StrNewlines(item.cells[i])])
TextLines(table) == SumSeq([i \in 1..Len(table) |-> ItemLines(table[i])])

buildMarkdownTable_offByOne(rows, maxRows) ==
    IF Len(rows) = 0 THEN NoRowsTable
    ELSE LET columns == ObjectKeys(rows[1])
             displayRows == SubSeq(rows, 1, IF Len(rows) < maxRows THEN Len(rows) ELSE maxRows)
             body == [r \in 1..Len(displayRows) |->
                        Item("data", [c \in 1..Len(columns) |->
                                        truncateCell(Get(displayRows[r], columns[c]))], 0)]
             lines == << HeaderItem(columns), SeparatorItem(columns) >> \o body
         IN  IF Len(rows) >= maxRows
             THEN lines \o << Item("blank", << >>, 0),
                              Item("summary", << >>, Len(rows) - maxRows) >>
             ELSE lines

\* The capped variant: rows.slice(0, maxRows), and past maxRows an empty line
\* and the summary line.
buildMarkdownTable(rows, maxRows) ==
    IF Len(rows) = 0 THEN NoRowsTable
    ELSE LET columns == ObjectKeys(rows[1])
             displayRows == SubSeq(rows, 1, IF Len(rows) < maxRows THEN Len(rows) ELSE maxRows)
             body == [r \in 1..Len(displayRows) |->
                        Item("data", [c \in 1..Len(columns) |->
                                        truncateCell(Get(displayRows[r], columns[c]))], 0)]
             lines == << HeaderItem(columns), SeparatorItem(columns) >> \o body
         IN  IF Len(rows) > maxRows
             THEN lines \o << Item("blank", << >>, 0),
                              Item("summary", << >>, Len(rows) - maxRows) >>
             ELSE lines

\* The uncapped variant: every row, no summary.
buildMarkdownTable_uncapped(rows) ==
    IF Len(rows) = 0 THEN NoRowsTable
    ELSE LET columns == ObjectKeys(rows[1])
             body == [r \in 1..Len(rows) |->
                        Item("data", [c \in 1..Len(columns) |->
                                        cellToString(Get(rows[r], columns[c]))], 0)]
         IN  << HeaderItem(columns), SeparatorItem(columns) >> \o body

\* A tool response: content[0].text as its parts, and isError.
\*   shape    "json" | "jsonSpooled" | "table" | "tableSpooled" | "error"
\*   header   buildMetadataHeader(metadata)
\*   inline   the serialized payload inside the ```json fence (or undefined)
\*   table    the markdown table (or << >>)
\*   bytes    the size the text states, rows the row count it states (-1: none)
\*   filepath the spooled file the text names (or NoFile)
\*   backend, message  of an error response: `${backendName} error: ${message}`;
\*            backend is also set when the text names the backend otherwise
\*            ('GraphQL returned data with errors.')
Response(shape, header, inline, table, bytes, rows, filepath) ==
    [isError |-> FALSE, shape |-> shape, header |-> header, inline |-> inline,
     table |-> table, bytes |-> bytes, rows |-> rows, filepath |-> filepath,
     backend |-> "", message |-> ""]

formatErrorResponse(backendName, message) ==
    [isError |-> TRUE, shape |-> "error", header |-> << >>, inline |-> JUndefined,
     table |-> << >>, bytes |-> -1, rows |-> -1, filepath |-> NoFile,
     backend |-> backendName, message |-> message]

NoResponse ==
    [isError |-> FALSE, shape |-> "none", header |-> << >>, inline |-> JUndefined,
     table |-> << >>, bytes |-> -1, rows |-> -1, filepath |-> NoFile,
     backend |-> "", message |-> ""]

\* Object.entries(metadata).map(`**${key}:** ${value}`).join(' | ')
RECURSIVE JoinStr(_, _)
JoinStr(parts, sep) ==
    IF parts = << >> THEN << >>
    ELSE IF Len(parts) = 1 THEN parts[1]
    ELSE parts[1] \o sep \o JoinStr(Tail(parts), sep)

buildMetadataHeader(metadata) ==
    JoinStr([i \in 1..Len(metadata.fields) |->
                Lit("**") \o Lit(metadata.fields[i].k) \o Lit(":** ")
                    \o StringOf(metadata.fields[i].v)],
            Lit(" | "))

\* FormatOptions; responseFormat is "table", "json" or NONE (the default
\* 'table' applies), rawResult a JSON value or JUndefined.
FormatOptions(toolName, metadata, rows, responseFormat, rawResult) ==
    [toolName |-> toolName, metadata |-> metadata, rows |-> rows,
     responseFormat |-> responseFormat, rawResult |-> rawResult]

\* rawResult ?? { metadata, rows }
ResultPayload(options) ==
    IF options.rawResult.t \in {"undefined", "null"}
    THEN JObj(<< Field("metadata", options.metadata), Field("rows", JArr(options.rows)) >>)
    ELSE options.rawResult

\* serialized.length > MAX_RESULT_BYTES
Overflows(options) == JsonSize(ResultPayload(options), FALSE) > MAX_RESULT_BYTES

TableOf(options, variant) ==
    IF variant = "capped" THEN buildMarkdownTable(options.rows, MAX_TABLE_ROWS)
    ELSE buildMarkdownTable_uncapped(options.rows)

\* formatToolResponse: [threw, resp, files]. The sweep runs first; `overflows`
\* is computed once and read by both branches; an exception of writeResultFile
\* is not caught here.
formatToolResponse(options, variant, fs, clock, env) ==
    LET swept == cleanupOldFiles(fs, clock, env)
        resultPayload == ResultPayload(options)
        size == JsonSize(resultPayload, FALSE)
        overflows == Overflows(options)
        metaHeader == buildMetadataHeader(options.metadata)
        spool == writeResultFile(options.toolName, resultPayload, swept, clock, env)
        thrown == [threw |-> TRUE, files |-> spool.files, resp |-> NoResponse]
    IN  IF options.responseFormat = "json"
        THEN IF overflows
             THEN IF spool.threw THEN thrown
                  ELSE [threw |-> FALSE, files |-> spool.files,
                        resp |-> Response("jsonSpooled", metaHeader, JUndefined, << >>,
                                          size, -1, spool.filepath)]
             ELSE [threw |-> FALSE, files |-> swept,
                   resp |-> Response("json", metaHeader, resultPayload, << >>,
                                     -1, -1, NoFile)]
        ELSE LET table == TableOf(options, variant)
             IN  IF overflows
                 THEN IF spool.threw THEN thrown
                      ELSE [threw |-> FALSE, files |-> spool.files,
                            resp |-> Response("tableSpooled", metaHeader, JUndefined, table,
                                              size, Len(options.rows), spool.filepath)]
                 ELSE [threw |-> FALSE, files |-> swept,
                       resp |-> Response("table", metaHeader, JUndefined, table,
                                         -1, -1, NoFile)]

\* ====================================================================
\* Inputs of the formatter
\* ====================================================================

\* Row counts reach MaxRows, past the row cap; MaxWide bounds the number of
\* two-byte characters in the large string of a payload.
MaxRows == 202
MaxWide == 1

\* The length of the decimal numeral of n >= 0.
RECURSIVE Digits(_)
Digits(n) == IF n < 10 THEN 1 ELSE 1 + Digits(n \div 10)

\* A result set of N rows with columns a, b. Row 1 holds `big` in column b
\* and, with withNl, a line feed in column a; row 2 has a null, row 3 lacks b.
SampleRows(N, big, withNl) ==
    [i \in 1..N |->
        CASE i = 1 -> JObj(<< Field("a", JStr(IF withNl
                                              THEN Ascii(1) \o Run("nl", 1) \o Ascii(1)
                                              ELSE Ascii(1))),
                              Field("b", JStr(big)) >>)
          [] i = 2 -> JObj(<< Field("a", JStr(Ascii(1))), Field("b", JNull) >>)
          [] i = 3 -> JObj(<< Field("a", JStr(Ascii(1))) >>)
          [] OTHER -> JObj(<< Field("a", JStr(Ascii(2))), Field("b", JNum(3)) >>)]

SampleMetadata(N) ==
    JObj(<< Field("Rows", JNum(Digits(N))), Field("Timeout", JStr(Lit("30000ms"))) >>)

\* A rawResult as sql_query builds it: { fields, rowCount, rows, timeoutMs }.
SampleRaw(rows, fieldName) ==
    JObj(<< Field("fields", JArr(<< JObj(<< Field("name", JStr(fieldName)),
                                            Field("dataTypeID", JNum(2)) >>) >>)),
            Field("rowCount", JNum(Digits(Len(rows)))),
            Field("rows", JArr(rows)),
            Field("timeoutMs", JNum(5)) >>)

\* A string of n characters, the first `wide` of them two-byte ones.
BigString(n, wide) ==
    IF n <= wide THEN Run("bmp2", n) ELSE Run("bmp2", wide) \o Ascii(n - wide)

\* Options whose large string is `big`: in row 1 when there is one, else in
\* the rawResult when there is one.
SampleOptions(N, raw, big, withNl, mode) ==
    LET rows == SampleRows(N, big, withNl)
    IN  FormatOptions("sql_query", SampleMetadata(N), rows, mode,
            IF raw THEN SampleRaw(rows, IF N = 0 THEN big ELSE Ascii(2))
            ELSE JUndefined)

\* sel = 0: a short string; sel = Span + 1 + d: the string that makes the
\* payload serialize to exactly MAX_RESULT_BYTES + d characters.
SizedOptions(N, raw, sel, wide, withNl, mode) ==
    LET base == JsonSize(ResultPayload(SampleOptions(N, raw, << >>, withNl, mode)), FALSE)
        n == IF sel = 0 \/ (N = 0 /\ ~raw) THEN 2
             ELSE MAX_RESULT_BYTES - base + (sel - Span - 1)
    IN  SampleOptions(N, raw, BigString(n, wide), withNl, mode)

RowCounts == {0, 1, 3} \cup ((MAX_TABLE_ROWS - 1)..MaxRows)

FormatInput(N, raw, sel, wide, withNl, mode, variant) ==
    [options |-> SizedOptions(N, raw, sel, wide, withNl, mode), variant |-> variant]

\* Two families of inputs: small result sets of every size around the byte
\* budget, and result sets of every row count, small and over the budget.
FormatInputs ==
    {FormatInput(N, raw, sel, wide, FALSE, mode, variant) :
        N \in {0, 1, 3}, raw \in BOOLEAN, sel \in 0..(2 * Span + 1),
        wide \in 0..MaxWide, mode \in {"table", "json", NONE},
        variant \in {"capped", "uncapped"}}
    \cup
    {FormatInput(N, raw, sel, 0, withNl, mode, variant) :
        N \in RowCounts, raw \in BOOLEAN, sel \in {0, 2 * Span + 1},
        withNl \in BOOLEAN, mode \in {"json", NONE},
        variant \in {"capped", "uncapped"}}

\* The file-system behaviours of one call, for a directory fs: nothing fails,
\* one operation fails, or all do.
FsEnvs(fs) ==
    {FsOk,
     [FsOk EXCEPT !.mkdir = TRUE],
     [FsOk EXCEPT !.write = "open"],
     [FsOk EXCEPT !.write = "data"],
     [FsOk EXCEPT !.readdir = TRUE],
     [FsOk EXCEPT !.entryFails = DOMAIN fs],
     [mkdir |-> TRUE, write |-> "open", readdir |-> TRUE, entryFails |-> DOMAIN fs]}

EmptyDir == [f \in {} |-> 0]
StartClock == 2 * MAX_AGE_MS
\* A directory with one file a millisecond past the retention window and one
\* exactly one hour old.
AgedDir ==
    LET stale == FileName("sql_query", StartClock - MAX_AGE_MS - 1, 7)
        fresh == FileName("sql_query", StartClock - MAX_AGE_MS, 8)
    IN  [f \in {stale, fresh} |-> f.ts]

\* ====================================================================
\* The process: configuration, registration, the warehouse startup check
\* ====================================================================

Backends == {"postgres", "clickhouse", "graphql", "bigquery"}

\* The tool each backend's register function registers.
ToolOf(backend) ==
    CASE backend = "postgres" -> "sql_query"
      [] backend = "clickhouse" -> "clickhouse_query"
      [] backend = "graphql" -> "graphql_query"
      [] backend = "bigquery" -> "bigquery_query"

\* Error messages the backends answer with, and the one verifyReadOnly
\* throws itself when the dry run validates.
TooPermissive == "BigQuery service account has write permissions on dataset"
BackendMessages ==
    {"Access Denied: permission denied", "User lacks write permissions", "ECONNREFUSED"}
\* error.message.includes('write permissions')
IncludesWritePermissions(message) ==
    message \in {TooPermissive, "User lacks write permissions"}

\* What client.getDatasets and the dry-run createQueryJob can answer.
NotRun == [kind |-> "notRun", message |-> ""]
ListingOutcomes ==
    {[kind |-> "empty", message |-> ""], [kind |-> "some", message |-> ""]}
    \cup {[kind |-> "failed", message |-> m] : m \in BackendMessages}
DryRunOutcomes ==
    {[kind |-> "validated", message |-> ""]}
    \cup {[kind |-> "rejected", message |-> m] : m \in BackendMessages}

verifyReadOnly_noRethrow(listing, dryRun) ==
    CASE listing.kind = "failed" ->
            IF IncludesWritePermissions(listing.message) THEN "throw" ELSE "return"
      [] listing.kind = "empty" -> "return"
      [] OTHER -> "return"

\* verifyReadOnly, once it has settled: "return" or "throw". A failed listing
\* reaches the outer catch; a validated dry run throws TooPermissive inside
\* the inner try, a rejected one reaches the inner catch with the backend's
\* error; both catches rethrow what includes 'write permissions'.
verifyReadOnly(listing, dryRun) ==
    CASE listing.kind = "failed" ->
            IF IncludesWritePermissions(listing.message) THEN "throw" ELSE "return"
      [] listing.kind = "empty" -> "return"
      [] OTHER ->
            LET error == IF dryRun.kind = "validated" THEN TooPermissive
                         ELSE dryRun.message
            IN  IF IncludesWritePermissions(error) THEN "throw" ELSE "return"

registerSync_copyPaste(cfg) ==
    {b \in {"postgres", "graphql"} : b \in cfg}
    \cup (IF "clickhouse" \in cfg THEN {"graphql"} ELSE {})

\* registerTools up to its first await: the three synchronous registrations.
registerSync(cfg) == {b \in {"postgres", "clickhouse", "graphql"} : b \in cfg}

\* ====================================================================
\* The tool handlers: inputs, backend results, responses
\* ====================================================================

\* A run starts at most MaxCalls invocations, one at a time: Spec follows
\* each handler alone.
MaxCalls == 1
Inv == {1}

\* new Pool({ max: 5 })
POOL_MAX == 5
\* clickhouse.ts: the shared client's request_timeout, and ms per second.
DEFAULT_TIMEOUT == 30000
MS_TO_SECONDS == 1000
ConnIds == 1..POOL_MAX

\* An argument object of a tool call: the query text, timeoutMs and
\* responseFormat (NONE: absent).
ToolInputs ==
    {[query |-> q, timeoutMs |-> t, responseFormat |-> f] :
        q \in {"", "select 1"},
        t \in {Undefined, Whole(5000), Whole(-5), Finite(1500 * Scale + 7)},
        f \in {NONE, "json"}}

\* clickhouse_query is also called with timeouts at the ends of the range.
ClickhouseInputs ==
    ToolInputs
    \cup {[query |-> "select 1", timeoutMs |-> Whole(t), responseFormat |-> NONE] :
            t \in {1, 1999, 999999}}

MaxExecutionTime_ceil(timeout) == (timeout + MS_TO_SECONDS - 1) \div MS_TO_SECONDS

\* max_execution_time: Math.floor(timeout / MS_TO_SECONDS)
MaxExecutionTime(timeout) == timeout \div MS_TO_SECONDS

\* The request_timeout of the client the handler picks for a timeout.
RequestTimeout(timeout) == IF timeout = DEFAULT_TIMEOUT THEN DEFAULT_TIMEOUT ELSE timeout

\* The zod schemas: a non-empty query string; timeoutMs optional, else
\* z.number().int().positive().
SchemaAccepts(input) ==
    /\ input.query # ""
    /\ \/ input.timeoutMs.kind = "undefined"
       \/ /\ input.timeoutMs.kind = "finite"
          /\ input.timeoutMs.num % Scale = 0
          /\ input.timeoutMs.num > 0

\* What a backend answers to a successful query: a few rows, or a result
\* whose serialization is far over the byte budget.
Results == {"small", "large"}
ResultRows(result) ==
    SampleRows(3, BigString(IF result = "large" THEN MAX_RESULT_BYTES ELSE 2, 0), FALSE)

TimeoutLabel(timeout) == JStr(Ascii(Digits(timeout) + 2))

\* The FormatOptions each handler builds from its result.
SqlOptions(result, timeout, format) ==
    LET rows == ResultRows(result)
    IN  FormatOptions("sql_query",
            JObj(<< Field("Rows", JNum(Digits(Len(rows)))),
                    Field("Timeout", TimeoutLabel(timeout)) >>),
            rows, format,
            JObj(<< Field("fields", JArr(<< JObj(<< Field("name", JStr(Ascii(1))),
                                                    Field("dataTypeID", JNum(2)) >>) >>)),
                    Field("rowCount", JNum(Digits(Len(rows)))),
                    Field("rows", JArr(rows)),
                    Field("timeoutMs", JNum(Digits(timeout))) >>))

ClickhouseOptions(result, timeout, format) ==
    LET data == ResultRows(result)
        statistics == JObj(<< Field("elapsed", JNum(1)), Field("rows_read", JNum(1)),
                              Field("bytes_read", JNum(1)) >>)
    IN  FormatOptions("clickhouse_query",
            JObj(<< Field("Rows", JNum(Digits(Len(data)))),
                    Field("Timeout", TimeoutLabel(timeout)),
                    Field("Rows read", JNum(1)),
                    Field("Bytes read", JNum(1)),
                    Field("Elapsed", JStr(Ascii(2))) >>),
            data, format,
            JObj(<< Field("data", JArr(data)),
                    Field("rows", JNum(Digits(Len(data)))),
                    Field("statistics", statistics),
                    Field("timeoutMs", JNum(Digits(timeout))) >>))

BigqueryOptions(result, timeout, format) ==
    LET rows == ResultRows(result)
    IN  FormatOptions("bigquery_query",
            JObj(<< Field("Rows", JNum(Digits(Len(rows)))),
                    Field("Timeout", TimeoutLabel(timeout)),
                    Field("Bytes processed", JNum(1)) >>),
            rows, format,
            JObj(<< Field("rows", JArr(rows)),
                    Field("rowCount", JNum(Digits(Len(rows)))),
                    Field("bytesProcessed", JNum(1)),
                    Field("timeoutMs", JNum(Digits(timeout))) >>))

\* What the GraphQL endpoint answers: the HTTP status class and the body.
\*   "empty" no body; "invalid" not JSON; "data" { data }; "errors" a
\*   non-empty errors array; "large" { data } far over the byte budget
HttpOutcomes ==
    {[ok |-> ok, body |-> b] :
        ok \in BOOLEAN, b \in {"empty", "invalid", "data", "errors", "large"}}

\* { data: payload.data, errors: payload.errors, timeoutMs: timeout }
GraphqlResult(body, timeout) ==
    JObj((IF body \in {"data", "large"}
          THEN << Field("data", JStr(BigString(IF body = "large" THEN MAX_RESULT_BYTES ELSE 2, 0))) >>
          ELSE << >>)
         \o (IF body = "errors"
             THEN << Field("errors", JArr(<< JObj(<< Field("message", JStr(Ascii(12))) >>) >>)) >>
             ELSE << >>)
         \o << Field("timeoutMs", JNum(Digits(timeout))) >>)

\* The graphql_query handler once the body text is read: it parses, checks
\* response.ok, and returns the result inline, error-flagged by hasErrors.
GraphqlResponse(http, timeout) ==
    IF http.body = "invalid"
    THEN formatErrorResponse("GraphQL", "Unable to parse GraphQL response as JSON")
    ELSE IF ~http.ok
    THEN formatErrorResponse("GraphQL", "GraphQL request failed")
    ELSE LET hasErrors == http.body = "errors"
             statusPrefix == IF hasErrors THEN Lit("**Errors:** 1 | **Timeout:** ms")
                                               \o Ascii(Digits(timeout))
                             ELSE Lit("**Timeout:** ms") \o Ascii(Digits(timeout))
         IN  [Response("json", statusPrefix, GraphqlResult(http.body, timeout),
                       << >>, -1, -1, NoFile)
                EXCEPT !.isError = hasErrors,
                       !.backend = IF hasErrors THEN "GraphQL" ELSE ""]

\* One invocation of a tool handler.
\*   outcome  "idle" | "running" | "returned" | "raised" (it threw or rejected)
\*   pc       the await it is suspended at
\*   conn     the pooled connection it holds (0: none)
\*   client   "none" | "shared" | "fresh" | "closed" (ClickHouse)
\*   timer    "none" | "armed" | "fired" | "cleared" (GraphQL)
\*   result   the backend's result when its query succeeded, else ""
\*   fsFailed whether the spool write of its formatting threw
\*   pending  the response its try/catch produced, returned after finally
\*   http     what the GraphQL endpoint answered, once the body is read
\*   request_timeout     of the ClickHouse client the invocation uses (ms)
\*   max_execution_time  the clickhouse_settings value sent with the query (s)
NoHttp == [ok |-> FALSE, body |-> "none"]
IdleInv ==
    [tool |-> "", pc |-> "idle", outcome |-> "idle", timeout |-> 0, format |-> NONE,
     conn |-> 0, client |-> "none", timer |-> "none", result |-> "",
     fsFailed |-> FALSE, pending |-> NoResponse, resp |-> NoResponse, http |-> NoHttp,
     request_timeout |-> 0, max_execution_time |-> 0]

Started(tool, pc, timeout, format) ==
    [IdleInv EXCEPT !.tool = tool, !.pc = pc, !.outcome = "running",
                    !.timeout = timeout, !.format = format]
Raised(r) == [r EXCEPT !.outcome = "raised", !.pc = "done"]
Returned(r, resp) == [r EXCEPT !.outcome = "returned", !.pc = "done", !.resp = resp]

\* The pg Pool: "null" before registration and after closePostgres, "open",
\* or "ending" once pool.end() is called. A connection is absent, idle or
\* busy, and carries its session's statement_timeout (0: DEFAULT).
NoConn == [st |-> "absent", stmt |-> 0]
PoolNull == [state |-> "null", conns |-> [c \in ConnIds |-> NoConn]]
PoolOpen == [state |-> "open", conns |-> [c \in ConnIds |-> NoConn]]
IdleConns(p) == {c \in ConnIds : p.conns[c].st = "idle"}
AbsentConns(p) == {c \in ConnIds : p.conns[c].st = "absent"}
BusyConns(p) == {c \in ConnIds : p.conns[c].st = "busy"}
Min(S) == CHOOSE x \in S : \A y \in S : x <= y
\* pool.connect(): an idle connection, else a new one while below max.
Acquirable(p) ==
    IF IdleConns(p) # {} THEN IdleConns(p)
    ELSE IF AbsentConns(p) # {} THEN {Min(AbsentConns(p))}
    ELSE {}

\* ====================================================================
\* State
\* ====================================================================

vars == << tIn, tOut, fIn, fOut, files, now, config, proc, bq, shut, pool, ch, inv, calls, sw >>

timeoutVars == << tIn, tOut >>
formatVars == << fIn, fOut >>
fsVars == << files, now >>
programVars == << config, proc, bq, shut, pool, ch, inv, calls >>
sweepVars == << sw >>

TimeoutIdle == tIn = Undefined /\ tOut = [done |-> FALSE, v |-> 0]
NoFormatInput == [options |-> FormatOptions("", JObj(<< >>), << >>, NONE, JUndefined),
                  variant |-> "capped"]
NoFormatOutput == [done |-> FALSE, threw |-> FALSE, resp |-> NoResponse, env |-> FsOk]
FormatIdle == fIn = NoFormatInput /\ fOut = NoFormatOutput
FsIdle == files = EmptyDir /\ now = StartClock
SweepIdle == sw = << >>

\* The process before start() runs: nothing registered, no transport.
\*   pc         "load" | "bqDatasets" | "bqDryRun" | "connect" | "serving" | "exited"
\*   transport  "none" | "open" | "closed";  exitCode -1 while the process runs
\*   handlers   whether the signal handlers are installed
\*   exitCause  "none" | "noBackends" | "verifyReadOnly" | "connect" | "shutdown"
ProcLoaded ==
    [pc |-> "load", registered |-> {}, exitCode |-> -1, transport |-> "none",
     connectCalled |-> FALSE, handlers |-> FALSE, exitCause |-> "none"]
BqIdle == [client |-> FALSE, listing |-> NotRun, dryRun |-> NotRun, threw |-> FALSE]
ShutIdle == [shuttingDown |-> FALSE, pc |-> "none", code |-> 0]
ProgramIdle ==
    /\ config = {} /\ proc = ProcLoaded /\ bq = BqIdle /\ shut = ShutIdle
    /\ pool = PoolNull /\ ch = "null" /\ inv = << >> /\ calls = 0

\* ====================================================================
\* SpecTimeout: resolveTimeout applied to one input
\* ====================================================================

InitTimeout ==
    /\ tIn \in TimeoutInputs
    /\ tOut = [done |-> FALSE, v |-> 0]
    /\ FormatIdle /\ FsIdle /\ ProgramIdle /\ SweepIdle

ResolveTimeout ==
    /\ ~tOut.done
    /\ tOut' = [done |-> TRUE, v |-> resolveTimeout(tIn)]
    /\ UNCHANGED << tIn, formatVars, fsVars, programVars, sweepVars >>

NextTimeout == ResolveTimeout

SpecTimeout == InitTimeout /\ [][NextTimeout]_vars

\* ====================================================================
\* SpecFormat: formatToolResponse applied to one FormatOptions
\* ====================================================================

InitFormat ==
    /\ fIn \in FormatInputs
    /\ fOut = NoFormatOutput
    /\ files \in {EmptyDir, AgedDir}
    /\ now = StartClock
    /\ TimeoutIdle /\ ProgramIdle /\ SweepIdle

\* One call of formatToolResponse, under a file-system behaviour env.
Format ==
    /\ ~fOut.done
    /\ \E env \in FsEnvs(files) :
         LET r == formatToolResponse(fIn.options, fIn.variant, files, now, env)
         IN  /\ fOut' = [done |-> TRUE, threw |-> r.threw, resp |-> r.resp, env |-> env]
             /\ files' = r.files
    /\ UNCHANGED << fIn, now, timeoutVars, programVars, sweepVars >>

NextFormat == Format

SpecFormat == InitFormat /\ [][NextFormat]_vars

\* ====================================================================
\* Spec: the process
\* ====================================================================

Alive == proc.exitCode = -1
Exit(code, cause) ==
    [proc EXCEPT !.pc = "exited", !.exitCode = code, !.exitCause = cause]

\* The process is linked with the capped formatter, the first of the two
\* variants; SpecFormat covers both.
LinkedFormatter == "capped"

Init ==
    /\ config \in SUBSET Backends
    /\ proc = ProcLoaded
    /\ bq = BqIdle
    /\ shut = ShutIdle
    /\ pool = PoolNull
    /\ ch = "null"
    /\ inv = [i \in Inv |-> IdleInv]
    /\ calls = 0
    /\ files = EmptyDir
    /\ now = StartClock
    /\ TimeoutIdle /\ FormatIdle /\ SweepIdle

\* start() up to its first await that waits for the outside: registerTools
\* registers the three synchronous backends; with no BigQuery configuration
\* it checks registeredBackends and start() goes on to server.connect.
StartSync ==
    /\ Alive /\ proc.pc = "load"
    /\ pool' = IF "postgres" \in config THEN PoolOpen ELSE pool
    /\ LET registered == registerSync(config)
       IN  IF "bigquery" \in config
           THEN /\ bq' = [bq EXCEPT !.client = TRUE]
                /\ proc' = [proc EXCEPT !.pc = "bqDatasets", !.registered = registered,
                                        !.handlers = TRUE]
           ELSE /\ bq' = bq
                /\ proc' = IF registered = {}
                           THEN [Exit(1, "noBackends") EXCEPT !.registered = registered]
                           ELSE [proc EXCEPT !.pc = "connect", !.registered = registered,
                                             !.connectCalled = TRUE, !.handlers = TRUE]
    /\ UNCHANGED << config, shut, ch, inv, calls, fsVars, timeoutVars, formatVars, sweepVars >>

\* verifyReadOnly has settled: a throw rejects start() and the process exits
\* with 1; a return registers bigquery_query and start() calls server.connect.
AfterVerify(result) ==
    IF result = "throw"
    THEN Exit(1, "verifyReadOnly")
    ELSE [proc EXCEPT !.pc = "connect",
                      !.registered = proc.registered \cup {"bigquery"},
                      !.connectCalled = TRUE]

\* What verifyReadOnly saw stays on record when it throws (the process exits
\* on it) or when the dry run validated; otherwise its locals are gone when
\* it returns.
Verified(listing, dryRun, result) ==
    IF result = "throw" \/ dryRun.kind = "validated"
    THEN [bq EXCEPT !.listing = listing, !.dryRun = dryRun, !.threw = TRUE]
    ELSE [bq EXCEPT !.listing = NotRun, !.dryRun = NotRun]

\* client.getDatasets({ maxResults: 1 }) settles.
BqDatasets ==
    /\ Alive /\ proc.pc = "bqDatasets"
    /\ \E listing \in ListingOutcomes :
         IF listing.kind = "some"
         THEN /\ bq' = [bq EXCEPT !.listing = listing]
              /\ proc' = [proc EXCEPT !.pc = "bqDryRun"]
         ELSE LET result == verifyReadOnly(listing, NotRun)
              IN  /\ bq' = Verified(listing, NotRun, result)
                  /\ proc' = AfterVerify(result)
    /\ UNCHANGED << config, shut, pool, ch, inv, calls, fsVars, timeoutVars, formatVars, sweepVars >>

\* The dry-run CREATE TABLE settles.
BqDryRun ==
    /\ Alive /\ proc.pc = "bqDryRun"
    /\ \E dryRun \in DryRunOutcomes :
         LET result == verifyReadOnly(bq.listing, dryRun)
         IN  /\ bq' = Verified(bq.listing, dryRun, result)
             /\ proc' = AfterVerify(result)
    /\ UNCHANGED << config, shut, pool, ch, inv, calls, fsVars, timeoutVars, formatVars, sweepVars >>

\* server.connect(transport) settles; a rejection reaches start().catch.
Connect ==
    /\ Alive /\ proc.pc = "connect"
    /\ \E ok \in BOOLEAN :
         proc' = IF ok THEN [proc EXCEPT !.pc = "serving", !.transport = "open"]
                 ELSE Exit(1, "connect")
    /\ UNCHANGED << config, bq, shut, pool, ch, inv, calls, fsVars, timeoutVars, formatVars, sweepVars >>

\* shutdown(code) without its shuttingDown test.
Shutdown_noGuard(code) ==
    /\ shut' = [shuttingDown |-> TRUE, pc |-> "server", code |-> code]
    /\ proc' = [proc EXCEPT !.transport =
                   IF proc.transport = "open" THEN "closed" ELSE proc.transport]

\* shutdown(code): a no-op when already shutting down; else it sets the flag
\* and calls server.close(), which closes the transport.
Shutdown(code) ==
    IF shut.shuttingDown THEN UNCHANGED << shut, proc >>
    ELSE /\ shut' = [shuttingDown |-> TRUE, pc |-> "server", code |-> code]
         /\ proc' = [proc EXCEPT !.transport =
                        IF proc.transport = "open" THEN "closed" ELSE proc.transport]

\* SIGINT or SIGTERM, once the handlers are installed.
Signal ==
    /\ Alive /\ proc.handlers
    /\ Shutdown(0)
    /\ UNCHANGED << config, bq, pool, ch, inv, calls, fsVars, timeoutVars, formatVars, sweepVars >>

\* transport.onclose (code 0) or transport.onerror (code 1).
TransportEvent ==
    /\ Alive /\ proc.transport = "open"
    /\ \E code \in {0, 1} : Shutdown(code)
    /\ UNCHANGED << config, bq, pool, ch, inv, calls, fsVars, timeoutVars, formatVars, sweepVars >>

\* await server.close() settles (either way); closePostgres() calls pool.end(),
\* which ends the idle connections.
ShutServer ==
    /\ Alive /\ shut.pc = "server"
    /\ shut' = [shut EXCEPT !.pc = "postgres"]
    /\ pool' = IF pool.state = "null" THEN pool
               ELSE [state |-> "ending",
                     conns |-> [c \in ConnIds |->
                                 IF pool.conns[c].st = "idle" THEN NoConn ELSE pool.conns[c]]]
    /\ UNCHANGED << config, proc, bq, ch, inv, calls, fsVars, timeoutVars, formatVars, sweepVars >>

\* await closePostgres() settles: pool.end() resolves once every connection
\* is back, and pool becomes null; or it rejects. closeClickhouse() is called.
ShutPostgres ==
    /\ Alive /\ shut.pc = "postgres"
    /\ \E ok \in BOOLEAN :
         /\ ok => BusyConns(pool) = {}
         /\ pool' = IF ok THEN PoolNull ELSE pool
    /\ shut' = [shut EXCEPT !.pc = "clickhouse"]
    /\ UNCHANGED << config, proc, bq, ch, inv, calls, fsVars, timeoutVars, formatVars, sweepVars >>

\* await closeClickhouse() settles: sharedClient is closed and null, or close
\* rejected and it stays. closeBigquery() runs: bqClient = null.
ShutClickhouse ==
    /\ Alive /\ shut.pc = "clickhouse"
    /\ \E ok \in BOOLEAN : ch' = IF ok THEN "null" ELSE ch
    /\ bq' = [bq EXCEPT !.client = FALSE]
    /\ shut' = [shut EXCEPT !.pc = "bigquery"]
    /\ UNCHANGED << config, proc, pool, inv, calls, fsVars, timeoutVars, formatVars, sweepVars >>

\* await closeBigquery() settles; process.exit(code).
ShutBigquery ==
    /\ Alive /\ shut.pc = "bigquery"
    /\ shut' = [shut EXCEPT !.pc = "done"]
    /\ proc' = Exit(shut.code, "shutdown")
    /\ UNCHANGED << config, bq, pool, ch, inv, calls, fsVars, timeoutVars, formatVars, sweepVars >>

\* --------------------------------------------------------- handlers

others == << config, proc, bq, shut, calls, timeoutVars, formatVars, sweepVars >>

\* A run starts at most MaxCalls invocations, and at least one for each
\* invocation it can have in flight.
CallBound ==
    IF MaxCalls > Cardinality(DOMAIN inv) THEN MaxCalls ELSE Cardinality(DOMAIN inv)

\* A request reaches a registered tool over the open transport. The handler
\* runs to its first await: schema.parse(input) and, for sql_query,
\* pool!.connect() are outside any try, so their exceptions leave the handler.
CanInvoke(i, backend) ==
    /\ Alive /\ proc.transport = "open" /\ backend \in proc.registered
    /\ inv[i].outcome # "running" /\ calls < CallBound

Invoked(i, r) ==
    /\ inv' = [inv EXCEPT ![i] = r]
    /\ calls' = calls + 1
    /\ UNCHANGED << config, proc, bq, shut, fsVars, timeoutVars, formatVars, sweepVars >>

InvokeSql(i) ==
    /\ CanInvoke(i, "postgres")
    /\ \E input \in ToolInputs :
         LET r == Started("sql_query", "connect", resolveTimeout(input.timeoutMs),
                          input.responseFormat)
         IN  Invoked(i, IF ~SchemaAccepts(input) \/ pool.state = "null"
                        THEN Raised(r) ELSE r)
    /\ UNCHANGED << pool, ch >>

\* await pool.connect() settles: it rejects (outside the try), or hands out
\* a connection.
SqlConnect(i) ==
    /\ Alive /\ inv[i].tool = "sql_query" /\ inv[i].pc = "connect"
    /\ \/ /\ inv' = [inv EXCEPT ![i] = Raised(@)]
          /\ pool' = pool
       \/ /\ pool.state = "open"
          /\ \E c \in Acquirable(pool) :
               /\ pool' = [pool EXCEPT !.conns[c].st = "busy"]
               /\ inv' = [inv EXCEPT ![i].conn = c, ![i].pc = "set"]
    /\ UNCHANGED << ch, fsVars, others >>

SqlSet_ignoresFailure(i) ==
    /\ Alive /\ inv[i].tool = "sql_query" /\ inv[i].pc = "set"
    /\ \/ /\ pool' = [pool EXCEPT !.conns[inv[i].conn].stmt = inv[i].timeout]
          /\ inv' = [inv EXCEPT ![i].pc = "query"]
       \/ /\ pool' = pool
          /\ inv' = [inv EXCEPT ![i].pc = "query"]
    /\ UNCHANGED << ch, fsVars, others >>

\* await client.query(`SET statement_timeout = ${timeout}`) settles.
SqlSet(i) ==
    /\ Alive /\ inv[i].tool = "sql_query" /\ inv[i].pc = "set"
    /\ \/ /\ pool' = [pool EXCEPT !.conns[inv[i].conn].stmt = inv[i].timeout]
          /\ inv' = [inv EXCEPT ![i].pc = "query"]
       \/ /\ pool' = pool
          /\ inv' = [inv EXCEPT ![i].pc = "reset",
                                ![i].pending = formatErrorResponse("PostgreSQL", "SET failed")]
    /\ UNCHANGED << ch, fsVars, others >>

SqlQuery_noFinally(i) ==
    /\ Alive /\ inv[i].tool = "sql_query" /\ inv[i].pc = "query"
    /\ inv' = [inv EXCEPT ![i] =
                 Returned(@, formatErrorResponse("PostgreSQL", "query failed"))]
    /\ UNCHANGED << pool, ch, fsVars, others >>

\* await client.query(parsed.sql) settles; on success formatToolResponse runs
\* inside the try, so an exception of the spool write reaches the catch.
SqlQuery(i) ==
    /\ Alive /\ inv[i].tool = "sql_query" /\ inv[i].pc = "query"
    /\ \/ /\ inv' = [inv EXCEPT ![i].pc = "reset",
                                ![i].pending = formatErrorResponse("PostgreSQL", "query failed")]
          /\ files' = files
       \/ \E result \in Results, env \in FsEnvs(files) :
            LET f == formatToolResponse(SqlOptions(result, inv[i].timeout, inv[i].format),
                                        LinkedFormatter, files, now, env)
            IN  /\ files' = f.files
                /\ inv' = [inv EXCEPT ![i].pc = "reset", ![i].result = result,
                                      ![i].fsFailed = f.threw,
                                      ![i].pending =
                                          IF f.threw
                                          THEN formatErrorResponse("PostgreSQL", "ENOSPC")
                                          ELSE f.resp]
    /\ UNCHANGED << pool, ch, now, others >>

\* finally: await client.query('SET statement_timeout = DEFAULT') settles (a
\* failure is swallowed), client.release(), and the handler returns.
SqlReset(i) ==
    /\ Alive /\ inv[i].tool = "sql_query" /\ inv[i].pc = "reset"
    /\ \E ok \in BOOLEAN :
         LET c == inv[i].conn
             stmt == IF ok THEN 0 ELSE pool.conns[c].stmt
         IN  pool' = [pool EXCEPT !.conns[c] =
                         IF pool.state = "ending" THEN NoConn
                         ELSE [st |-> "idle", stmt |-> stmt]]
    /\ inv' = [inv EXCEPT ![i] = [Returned(@, @.pending) EXCEPT !.conn = 0]]
    /\ UNCHANGED << ch, fsVars, others >>

\* clickhouse_query to its first await: parse, then getClient() or
\* createClient(), all outside the try.
InvokeClickhouse(i) ==
    /\ CanInvoke(i, "clickhouse")
    /\ \E input \in ClickhouseInputs, created \in BOOLEAN :
         LET timeout == resolveTimeout(input.timeoutMs)
             useSharedClient == timeout = DEFAULT_TIMEOUT
             creates == ~useSharedClient \/ ch = "null"
             entered == Started("clickhouse_query", "query", timeout, input.responseFormat)
             r == [entered EXCEPT
                     !.client = IF useSharedClient THEN "shared" ELSE "fresh",
                     !.request_timeout = RequestTimeout(timeout),
                     !.max_execution_time = MaxExecutionTime(timeout)]
         IN  /\ ~creates => created
             /\ IF ~SchemaAccepts(input) THEN /\ Invoked(i, Raised(entered)) /\ ch' = ch
                ELSE IF ~created THEN /\ Invoked(i, Raised(entered)) /\ ch' = ch
                ELSE /\ Invoked(i, r)
                     /\ ch' = IF useSharedClient THEN "open" ELSE ch
    /\ UNCHANGED pool

ChFinally_noClose(r, resp) == Returned(r, resp)

\* The end of the try/catch of clickhouse_query: with the shared client the
\* handler returns; with a fresh one it awaits client.close() first.
ChFinally(r, resp) ==
    IF r.client = "shared" THEN Returned(r, resp)
    ELSE [r EXCEPT !.pc = "close", !.pending = resp]

\* await client.query(...) settles.
ChQuery(i) ==
    /\ Alive /\ inv[i].tool = "clickhouse_query" /\ inv[i].pc = "query"
    /\ \/ inv' = [inv EXCEPT ![i] =
                    ChFinally(@, formatErrorResponse("ClickHouse", "query failed"))]
       \/ inv' = [inv EXCEPT ![i].pc = "json"]
    /\ UNCHANGED << pool, ch, fsVars, others >>

\* await resultSet.json() settles; on success formatToolResponse runs.
ChJson(i) ==
    /\ Alive /\ inv[i].tool = "clickhouse_query" /\ inv[i].pc = "json"
    /\ \/ /\ inv' = [inv EXCEPT ![i] =
                       ChFinally(@, formatErrorResponse("ClickHouse", "invalid JSON"))]
          /\ files' = files
       \/ \E result \in Results, env \in FsEnvs(files) :
            LET f == formatToolResponse(
                        ClickhouseOptions(result, inv[i].timeout, inv[i].format),
                        LinkedFormatter, files, now, env)
            IN  /\ files' = f.files
                /\ inv' = [inv EXCEPT ![i] =
                             ChFinally([@ EXCEPT !.result = result, !.fsFailed = f.threw],
                                       IF f.threw
                                       THEN formatErrorResponse("ClickHouse", "ENOSPC")
                                       ELSE f.resp)]
    /\ UNCHANGED << pool, ch, now, others >>

\* finally: await client.close() of a fresh client settles; a rejection
\* leaves the handler.
ChClose(i) ==
    /\ Alive /\ inv[i].tool = "clickhouse_query" /\ inv[i].pc = "close"
    /\ \E ok \in BOOLEAN :
         inv' = [inv EXCEPT ![i] =
                    IF ok THEN [Returned(@, @.pending) EXCEPT !.client = "closed"]
                    ELSE Raised(@)]
    /\ UNCHANGED << pool, ch, fsVars, others >>

\* graphql_query to its first await: parse (outside the try), the abort
\* timer is armed, fetch is called.
InvokeGraphql(i) ==
    /\ CanInvoke(i, "graphql")
    /\ \E input \in ToolInputs :
         LET r == [Started("graphql_query", "fetch", resolveTimeout(input.timeoutMs), NONE)
                    EXCEPT !.timer = "armed"]
         IN  Invoked(i, IF ~SchemaAccepts(input) THEN [Raised(r) EXCEPT !.timer = "none"]
                        ELSE r)
    /\ UNCHANGED << pool, ch >>

\* The timeout elapses: controller.abort().
GqlTimer(i) ==
    /\ Alive /\ inv[i].outcome = "running" /\ inv[i].timer = "armed"
    /\ inv' = [inv EXCEPT ![i].timer = "fired"]
    /\ UNCHANGED << pool, ch, fsVars, others >>

GqlAborted_generic(r) ==
    [Returned(r, formatErrorResponse("GraphQL", "fetch failed")) EXCEPT !.timer = "cleared"]

\* catch of an AbortError: the distinct message; finally clears the timer.
GqlAborted(r) ==
    [Returned(r, formatErrorResponse("GraphQL", "Request aborted after timeout"))
        EXCEPT !.timer = "cleared"]

\* await fetch(...) settles: aborted, failed, or the response head arrived.
GqlFetch(i) ==
    /\ Alive /\ inv[i].tool = "graphql_query" /\ inv[i].pc = "fetch"
    /\ IF inv[i].timer = "fired"
       THEN inv' = [inv EXCEPT ![i] = GqlAborted(@)]
       ELSE \/ inv' = [inv EXCEPT ![i] =
                         [Returned(@, formatErrorResponse("GraphQL", "fetch failed"))
                            EXCEPT !.timer = "cleared"]]
            \/ inv' = [inv EXCEPT ![i].pc = "text"]
    /\ UNCHANGED << pool, ch, fsVars, others >>

\* await response.text() settles; the handler builds its response itself and
\* returns; finally clears the timer.
GqlText(i) ==
    /\ Alive /\ inv[i].tool = "graphql_query" /\ inv[i].pc = "text"
    /\ IF inv[i].timer = "fired"
       THEN inv' = [inv EXCEPT ![i] = GqlAborted(@)]
       ELSE \/ inv' = [inv EXCEPT ![i] =
                         [Returned(@, formatErrorResponse("GraphQL", "body failed"))
                            EXCEPT !.timer = "cleared"]]
            \/ \E http \in HttpOutcomes :
                 inv' = [inv EXCEPT ![i] =
                           [Returned(@, GraphqlResponse(http, @.timeout))
                              EXCEPT !.timer = "cleared", !.http = http,
                                     !.result = IF ~http.ok \/ http.body \in {"invalid", "errors"}
                                                THEN ""
                                                ELSE IF http.body = "large" THEN "large"
                                                ELSE "small"]]
    /\ UNCHANGED << pool, ch, fsVars, others >>

\* bigquery_query to its first await: parse (outside the try), then
\* bqClient!.createQueryJob inside it: a null bqClient is caught.
InvokeBigquery(i) ==
    /\ CanInvoke(i, "bigquery")
    /\ \E input \in ToolInputs :
         LET r == Started("bigquery_query", "job", resolveTimeout(input.timeoutMs),
                          input.responseFormat)
         IN  Invoked(i, IF ~SchemaAccepts(input) THEN Raised(r)
                        ELSE IF ~bq.client
                        THEN Returned(r, formatErrorResponse("BigQuery", "TypeError"))
                        ELSE r)
    /\ UNCHANGED << pool, ch >>

\* await createQueryJob, then await job.getQueryResults(), settle.
BqStep(i) ==
    /\ Alive /\ inv[i].tool = "bigquery_query" /\ inv[i].pc \in {"job", "results"}
    /\ \/ inv' = [inv EXCEPT ![i] =
                    Returned(@, formatErrorResponse("BigQuery", "job failed"))]
       \/ inv' = [inv EXCEPT ![i].pc = IF @ = "job" THEN "results" ELSE "metadata"]
    /\ UNCHANGED << pool, ch, fsVars, others >>

\* await job.getMetadata() settles; on success formatToolResponse runs.
BqMetadata(i) ==
    /\ Alive /\ inv[i].tool = "bigquery_query" /\ inv[i].pc = "metadata"
    /\ \/ /\ inv' = [inv EXCEPT ![i] =
                       Returned(@, formatErrorResponse("BigQuery", "metadata failed"))]
          /\ files' = files
       \/ \E result \in Results, env \in FsEnvs(files) :
            LET f == formatToolResponse(
                        BigqueryOptions(result, inv[i].timeout, inv[i].format),
                        LinkedFormatter, files, now, env)
            IN  /\ files' = f.files
                /\ inv' = [inv EXCEPT ![i] =
                             Returned([@ EXCEPT !.result = result, !.fsFailed = f.threw],
                                      IF f.threw
                                      THEN formatErrorResponse("BigQuery", "ENOSPC")
                                      ELSE f.resp)]
    /\ UNCHANGED << pool, ch, now, others >>

Next ==
    \/ StartSync \/ BqDatasets \/ BqDryRun \/ Connect
    \/ Signal \/ TransportEvent
    \/ ShutServer \/ ShutPostgres \/ ShutClickhouse \/ ShutBigquery
    \/ \E i \in Inv :
         \/ InvokeSql(i) \/ SqlConnect(i) \/ SqlSet(i) \/ SqlQuery(i) \/ SqlReset(i)
         \/ InvokeClickhouse(i) \/ ChQuery(i) \/ ChJson(i) \/ ChClose(i)
         \/ InvokeGraphql(i) \/ GqlTimer(i) \/ GqlFetch(i) \/ GqlText(i)
         \/ InvokeBigquery(i) \/ BqStep(i) \/ BqMetadata(i)

Spec == Init /\ [][Next]_vars

\* ====================================================================
\* SpecSql: a process with PostgreSQL alone and two sql_query invocations
\* ====================================================================

\* The handler is async: while one invocation awaits, the server starts the
\* next request, so two invocations share the pool.
SqlInv == {1, 2}

InitSql ==
    /\ config = {"postgres"}
    /\ proc = ProcLoaded
    /\ bq = BqIdle
    /\ shut = ShutIdle
    /\ pool = PoolNull
    /\ ch = "null"
    /\ inv = [i \in SqlInv |-> IdleInv]
    /\ calls = 0
    /\ files = EmptyDir
    /\ now = StartClock
    /\ TimeoutIdle /\ FormatIdle /\ SweepIdle

NextSql ==
    \/ StartSync \/ Connect
    \/ Signal \/ TransportEvent
    \/ ShutServer \/ ShutPostgres \/ ShutClickhouse \/ ShutBigquery
    \/ \E i \in SqlInv :
         InvokeSql(i) \/ SqlConnect(i) \/ SqlSet(i) \/ SqlQuery(i) \/ SqlReset(i)

SpecSql == InitSql /\ [][NextSql]_vars

\* ====================================================================
\* SpecSweep: formatting calls of several processes on one RESULTS_DIR
\* ====================================================================

\* cleanupOldFiles and writeResultFile are synchronous, so within one process
\* formatting calls never interleave; RESULTS_DIR is in the system's temporary
\* directory, which every dev-mcp process of the machine shares, so calls of
\* different processes interleave between any two file-system operations.

\* Two processes; the clock advances by at most MaxHours retention windows.
MaxHours == 1
Sweepers == {1, 2}

\* One formatting call.
\*   pc        "idle" | "stat" | "unlink" | "swept" | "done"
\*   clock     `now`, the sweep's reading of Date.now()
\*   dir       the entries of the directory when the sweep began
\*   listing   what readdirSync returned; todo: the entries not yet visited
\*   cur       the entry whose unlinkSync is next
\*   failed    the entries whose statSync or unlinkSync threw
\*   dirFailed whether ensureDir or readdirSync threw
\*   deleted   the entries this sweep unlinked, with the mtime it read
\*   filepath  the path writeResultFile returned, threw: whether it threw
SweepIdleCall ==
    [pc |-> "idle", clock |-> 0, dir |-> {}, listing |-> {}, todo |-> {},
     cur |-> NoFile, failed |-> {}, dirFailed |-> FALSE, deleted |-> {},
     filepath |-> NoFile, threw |-> FALSE]

\* The loop goes on to the next entry, or ends.
SweepNext(r, f) ==
    [r EXCEPT !.todo = @ \ {f}, !.cur = NoFile,
              !.pc = IF r.todo \ {f} = {} THEN "swept" ELSE "stat"]

\* cleanupOldFiles up to its loop: ensureDir(), now = Date.now(),
\* readdirSync(RESULTS_DIR); an exception of either reaches the outer catch.
SweepBegin(p) ==
    /\ sw[p].pc = "idle"
    /\ \E dirOk \in BOOLEAN :
         sw' = [sw EXCEPT ![p] =
                  IF dirOk
                  THEN [@ EXCEPT !.clock = now, !.dir = DOMAIN files,
                                 !.listing = DOMAIN files, !.todo = DOMAIN files,
                                 !.pc = IF DOMAIN files = {} THEN "swept" ELSE "stat"]
                  ELSE [@ EXCEPT !.clock = now, !.dir = DOMAIN files,
                                 !.dirFailed = TRUE, !.pc = "swept"]]
    /\ UNCHANGED << fsVars, timeoutVars, formatVars, programVars >>

SweepStat_noCatch(p) ==
    /\ sw[p].pc = "stat"
    /\ \E f \in sw[p].todo, ok \in BOOLEAN :
         sw' = [sw EXCEPT ![p] =
                  IF f \notin DOMAIN files \/ ~ok
                  THEN [@ EXCEPT !.failed = @ \cup {f}, !.pc = "swept"]
                  ELSE IF @.clock - files[f] > MAX_AGE_MS
                  THEN [@ EXCEPT !.cur = f, !.pc = "unlink"]
                  ELSE SweepNext(@, f)]
    /\ UNCHANGED << fsVars, timeoutVars, formatVars, programVars >>

SweepStat_atLeast(p) ==
    /\ sw[p].pc = "stat"
    /\ \E f \in sw[p].todo, ok \in BOOLEAN :
         sw' = [sw EXCEPT ![p] =
                  IF f \notin DOMAIN files \/ ~ok
                  THEN SweepNext([@ EXCEPT !.failed = @ \cup {f}], f)
                  ELSE IF @.clock - files[f] >= MAX_AGE_MS
                  THEN [@ EXCEPT !.cur = f, !.pc = "unlink"]
                  ELSE SweepNext(@, f)]
    /\ UNCHANGED << fsVars, timeoutVars, formatVars, programVars >>

\* One entry of the loop: statSync(filepath) throws when the entry is gone
\* (another sweep removed it) or cannot be read, which the inner catch
\* swallows; else the entry is unlinked next when now - stat.mtimeMs >
\* MAX_AGE_MS.
SweepStat(p) ==
    /\ sw[p].pc = "stat"
    /\ \E f \in sw[p].todo, ok \in BOOLEAN :
         sw' = [sw EXCEPT ![p] =
                  IF f \notin DOMAIN files \/ ~ok
                  THEN SweepNext([@ EXCEPT !.failed = @ \cup {f}], f)
                  ELSE IF @.clock - files[f] > MAX_AGE_MS
                  THEN [@ EXCEPT !.cur = f, !.pc = "unlink"]
                  ELSE SweepNext(@, f)]
    /\ UNCHANGED << fsVars, timeoutVars, formatVars, programVars >>

\* unlinkSync(filepath): it throws when the entry is gone meanwhile or cannot
\* be removed, which the inner catch swallows.
SweepUnlink(p) ==
    /\ sw[p].pc = "unlink"
    /\ LET f == sw[p].cur
       IN  \E ok \in BOOLEAN :
             IF f \in DOMAIN files /\ ok
             THEN /\ files' = [g \in DOMAIN files \ {f} |-> files[g]]
                  /\ sw' = [sw EXCEPT ![p] =
                              SweepNext([@ EXCEPT !.deleted = @ \cup {<< f, files[f] >>}], f)]
             ELSE /\ files' = files
                  /\ sw' = [sw EXCEPT ![p] =
                              SweepNext([@ EXCEPT !.failed = @ \cup {f}], f)]
    /\ UNCHANGED << now, timeoutVars, formatVars, programVars >>

\* The rest of formatToolResponse once the sweep has returned: when the
\* payload overflows, writeResultFile, whose path the response names.
SpoolWrite(p) ==
    /\ sw[p].pc = "swept"
    /\ \E overflows \in BOOLEAN,
          env \in {FsOk, [FsOk EXCEPT !.mkdir = TRUE], [FsOk EXCEPT !.write = "data"]} :
         IF overflows
         THEN LET w == writeResultFile("sql_query", JNum(p), files, now, env)
              IN  /\ files' = w.files
                  /\ sw' = [sw EXCEPT ![p].pc = "done", ![p].threw = w.threw,
                                      ![p].filepath = w.filepath]
         ELSE /\ env = FsOk
              /\ files' = files
              /\ sw' = [sw EXCEPT ![p].pc = "done"]
    /\ UNCHANGED << now, timeoutVars, formatVars, programVars >>

\* The clock readings: whole retention windows after the start, and a
\* millisecond past each.
Times == {StartClock + h * MAX_AGE_MS + e : h \in 0..MaxHours, e \in {0, 1}}

\* Time passes.
Tick ==
    /\ \E t \in Times : t > now /\ now' = t
    /\ UNCHANGED << files, sweepVars, timeoutVars, formatVars, programVars >>

InitSweep ==
    /\ sw = [p \in Sweepers |-> SweepIdleCall]
    /\ files \in {EmptyDir, AgedDir}
    /\ now = StartClock
    /\ TimeoutIdle /\ FormatIdle /\ ProgramIdle

NextSweep ==
    \/ Tick
    \/ \E p \in Sweepers :
         SweepBegin(p) \/ SweepStat(p) \/ SweepUnlink(p) \/ SpoolWrite(p)

SpecSweep == InitSweep /\ [][NextSweep]_vars

\* ====================================================================
\* Properties
\* ====================================================================

\* C1: no invocation of sql_query, clickhouse_query, graphql_query or
\* bigquery_query ever terminates by throwing or rejecting: every failure
\* ends in a returned, error-flagged response.
C1_NeverRaises ==
    \A i \in Inv :
        /\ inv[i].outcome # "raised"
        /\ (inv[i].outcome = "returned" /\ inv[i].result = "") => inv[i].resp.isError

\* C2: when the spool write of an oversized successful result fails, the
\* caller still gets a non-error response carrying the inline result.
C2_SpoolFailureIgnored ==
    \A i \in Inv :
        (inv[i].outcome = "returned" /\ inv[i].fsFailed)
            => /\ ~inv[i].resp.isError
               /\ inv[i].resp.shape \in {"json", "table"}

\* C3: formatToolResponse spools exactly when the byte length of the
\* serialized payload exceeds MAX_RESULT_BYTES (with a working file system).
C3_SpoolIffBytesOverBudget ==
    (fOut.done /\ fOut.env = FsOk)
        => ((fOut.resp.filepath # NoFile)
              <=> (JsonSize(ResultPayload(fIn.options), TRUE) > MAX_RESULT_BYTES))

\* C4: for each of the four tools, a successful query whose result is over
\* the budget returns a non-error response that names a spooled file and
\* the size instead of inlining the payload (with a working file system).
C4_OversizedSuccessSpooled ==
    \A i \in Inv :
        (inv[i].outcome = "returned" /\ inv[i].result = "large" /\ ~inv[i].fsFailed)
            => /\ ~inv[i].resp.isError
               /\ inv[i].resp.filepath # NoFile
               /\ inv[i].resp.bytes > MAX_RESULT_BYTES
               /\ inv[i].resp.inline = JUndefined

\* C5: if the dry-run CREATE TABLE validated, the process has exited with
\* status 1, server.connect was never called, the transport never opened and
\* no tool call was served.
C5_ValidatedDryRunAborts ==
    bq.dryRun.kind = "validated"
        => /\ proc.pc = "exited" /\ proc.exitCode = 1
           /\ ~proc.connectCalled /\ proc.transport = "none"
           /\ "bigquery" \notin proc.registered
           /\ calls = 0 /\ \A i \in Inv : inv[i].outcome = "idle"

C5_Witness ==
    /\ bq.dryRun.kind = "validated" /\ proc.exitCode = 1
    /\ config = Backends /\ shut.shuttingDown

\* C6: verifyReadOnly aborts startup only when the dry run validated: a
\* failed or empty listing, or a rejected dry run, never does.
C6_AbortOnlyWhenValidated ==
    proc.exitCause = "verifyReadOnly" => bq.dryRun.kind = "validated"

\* C7: a backend's tool is registered only if its configuration is present;
\* the three synchronous backends are registered as soon as start() has run,
\* and once server.connect is called the registered backends are exactly the
\* configured ones; only configured tools are served; with no configuration
\* the process exits with status 1 before connecting or serving.
C7_RegisteredIffConfigured ==
    /\ proc.registered \subseteq config
    /\ proc.pc # "load" =>
          \A b \in Backends \ {"bigquery"} : b \in proc.registered <=> b \in config
    /\ proc.connectCalled => proc.registered = config
    /\ \A i \in Inv : inv[i].tool # "" => \E b \in config : ToolOf(b) = inv[i].tool
    /\ (config = {} /\ proc.pc # "load") =>
          /\ proc.pc = "exited" /\ proc.exitCode = 1
          /\ ~proc.connectCalled /\ proc.transport = "none" /\ calls = 0

C7_Witness ==
    /\ proc.pc = "serving" /\ config = {"clickhouse", "bigquery"}
    /\ proc.registered = config
    /\ \E i \in Inv : inv[i].outcome = "returned"

\* C8: resolveTimeout(t) lies in [1000, 300000] for every input; for a
\* number it is t truncated toward zero and clamped: below 1001 it is 1000,
\* from 300000 on it is 300000, in between it is the integer part of t;
\* resolve(-5) = 1000, resolve(999999) = 300000, resolve(1500.7) = 1500.
C8_TruncatedAndClamped ==
    tOut.done =>
        /\ tOut.v \in MIN_TIMEOUT_MS..MAX_TIMEOUT_MS
        /\ tIn.kind = "posInf" => tOut.v = MAX_TIMEOUT_MS
        /\ tIn.kind = "negInf" => tOut.v = MIN_TIMEOUT_MS
        /\ tIn.kind = "finite" =>
              /\ tIn.num < (MIN_TIMEOUT_MS + 1) * Scale => tOut.v = MIN_TIMEOUT_MS
              /\ tIn.num >= MAX_TIMEOUT_MS * Scale => tOut.v = MAX_TIMEOUT_MS
              /\ (tIn.num >= MIN_TIMEOUT_MS * Scale /\ tIn.num <= MAX_TIMEOUT_MS * Scale)
                    => /\ tOut.v * Scale <= tIn.num
                       /\ tIn.num < (tOut.v + 1) * Scale
              /\ tIn.num = -5 * Scale => tOut.v = 1000
              /\ tIn.num = 999999 * Scale => tOut.v = 300000
              /\ tIn.num = 1500 * Scale + 7 => tOut.v = 1500

C8_Witness ==
    tOut.done /\ tIn = Finite(1500 * Scale + 7) /\ tOut.v = 1500

\* C9: resolveTimeout returns the default 30000 for every input that is not
\* a finite number: undefined, a non-number, NaN, +Infinity, -Infinity.
C9_DefaultWhenNotFinite ==
    (tOut.done /\ tIn.kind # "finite") => tOut.v = DEFAULT_TIMEOUT_MS

\* Whether no value of the rows contains a line feed.
NoLineBreaks(rows) ==
    \A r \in 1..Len(rows) : \A f \in 1..Len(rows[r].fields) :
        rows[r].fields[f].v.t = "str" => StrNewlines(rows[r].fields[f].v.s) = 0

TableRendered ==
    /\ fOut.done /\ ~fOut.threw
    /\ fOut.resp.shape \in {"table", "tableSpooled"}
    /\ Len(fIn.options.rows) >= 1

\* C10, as stated (for the capped variant and rows without line feeds): the
\* table of N >= 1 rows is a header line, a separator line, min(N, 200) data
\* lines and, when N > 200, one summary line; no other lines.
C10_NoOtherLines ==
    (TableRendered /\ fIn.variant = "capped" /\ NoLineBreaks(fIn.options.rows))
        => LET N == Len(fIn.options.rows)
           IN  TextLines(fOut.resp.table) =
                   2 + (IF N <= MAX_TABLE_ROWS THEN N ELSE MAX_TABLE_ROWS + 1)

\* C10, amended: the capped table of N >= 1 rows is a header, a separator,
\* min(N, 200) data items and, when N > 200, an empty line followed by one
\* summary stating N - 200; the uncapped table is a header, a separator and
\* N data items for every N; when no value contains a line feed each item is
\* exactly one line of the text.
C10_TableLines ==
    TableRendered
        => LET N == Len(fIn.options.rows)
               table == fOut.resp.table
               capped == fIn.variant = "capped"
               shown == IF capped /\ N > MAX_TABLE_ROWS THEN MAX_TABLE_ROWS ELSE N
           IN  /\ [i \in 1..Len(table) |-> table[i].kind]
                    = << "header", "separator" >> \o [i \in 1..shown |-> "data"]
                        \o (IF capped /\ N > MAX_TABLE_ROWS
                            THEN << "blank", "summary" >> ELSE << >>)
               /\ (capped /\ N > MAX_TABLE_ROWS)
                    => table[Len(table)].more = N - MAX_TABLE_ROWS
               /\ NoLineBreaks(fIn.options.rows) => TextLines(table) = Len(table)

C10_Witness ==
    /\ TableRendered /\ fIn.variant = "capped"
    /\ Len(fIn.options.rows) = MAX_TABLE_ROWS + 1
    /\ NoLineBreaks(fIn.options.rows)
    /\ TextLines(fOut.resp.table) = MAX_TABLE_ROWS + 4

\* C11, as stated: when a sweep has returned without a per-entry failure,
\* every entry of the directory whose last-modified time is more than one
\* hour before the sweep's clock reading is deleted.
C11_SweepAlwaysDeletes ==
    \A p \in Sweepers :
        (sw[p].pc \in {"swept", "done"} /\ sw[p].failed = {})
            => \A f \in sw[p].dir :
                 sw[p].clock - f.ts > MAX_AGE_MS => f \notin DOMAIN files

\* C11, amended: a sweep that could list the directory has visited every
\* listed entry when it returns, whatever failed on the way, and every
\* listed entry on which nothing failed and whose last-modified time is more
\* than one hour before the sweep's clock reading is deleted; a sweep that
\* could not create or list the directory returns without deleting anything.
C11_SweepDeletesStale ==
    \A p \in Sweepers :
        sw[p].pc \in {"swept", "done"}
            => /\ sw[p].todo = {}
               /\ IF sw[p].dirFailed
                  THEN sw[p].listing = {} /\ sw[p].deleted = {}
                  ELSE sw[p].listing = sw[p].dir
               /\ \A f \in sw[p].listing \ sw[p].failed :
                    sw[p].clock - f.ts > MAX_AGE_MS => f \notin DOMAIN files

C11_Witness ==
    \E p \in Sweepers, q \in Sweepers :
        /\ p # q /\ sw[p].pc = "swept"
        /\ sw[p].deleted # {}
        /\ \E d \in sw[q].deleted : d[1] \in sw[p].failed

\* C12: a graphql_query invocation whose timer fired while it awaited the
\* response returns the error-flagged 'Request aborted after <timeout>ms'
\* response; when it has returned its timer is cleared, a timer is armed only
\* while its invocation runs, and a timer fires only then.
C12_AbortedOnTimeout ==
    /\ [](\A i \in Inv :
            inv[i].tool = "graphql_query" =>
                /\ inv[i].outcome = "returned" => inv[i].timer = "cleared"
                /\ inv[i].outcome = "raised" => inv[i].timer = "none"
                /\ inv[i].timer \in {"armed", "fired"} => inv[i].outcome = "running")
    /\ [][\A i \in Inv :
            /\ (inv[i].timer = "fired" /\ inv'[i].outcome # "running")
                 => inv'[i].resp = formatErrorResponse("GraphQL", "Request aborted after timeout")
            /\ (inv[i].timer # "fired" /\ inv'[i].timer = "fired")
                 => (inv[i].timer = "armed" /\ inv[i].outcome = "running")]_vars

C12_Witness ==
    \E i \in Inv :
        /\ inv[i].tool = "graphql_query" /\ inv[i].outcome = "returned"
        /\ inv[i].timer = "cleared"
        /\ inv[i].resp.isError /\ inv[i].resp.backend = "GraphQL"
        /\ inv[i].resp.message = "Request aborted after timeout"

\* C13: when the GraphQL endpoint answered with a non-empty errors array,
\* whatever the HTTP status, the response is error-flagged, names GraphQL
\* and carries the errors the backend reported; when it answered 2xx
\* without errors the response is not error-flagged.
C13_GraphqlErrorsReported ==
    \A i \in Inv :
        (inv[i].tool = "graphql_query" /\ inv[i].outcome = "returned"
            /\ inv[i].http # NoHttp)
            => /\ inv[i].http.body = "errors"
                    => /\ inv[i].resp.isError
                       /\ inv[i].resp.backend = "GraphQL"
                       /\ inv[i].resp.inline.t = "obj"
                       /\ HasKey(inv[i].resp.inline, "errors")
               /\ (inv[i].http.ok /\ inv[i].http.body \in {"empty", "data", "large"})
                    => ~inv[i].resp.isError

\* C14: an sql_query invocation holds a checked-out connection exactly from
\* the moment pool.connect() resolved until it returns; its steps go
\* set-timeout, execute, reset-timeout, in that order, a failed step leading
\* straight to the reset; it returns only from the reset, and that step is
\* the one that releases its connection; so when no invocation is in flight
\* no connection is checked out.
C14_ResetAndRelease ==
    /\ [](/\ \A i \in DOMAIN inv :
               IF inv[i].outcome = "running" /\ inv[i].pc \in {"set", "query", "reset"}
               THEN /\ inv[i].conn \in ConnIds
                    /\ pool.conns[inv[i].conn].st = "busy"
                    /\ \A j \in DOMAIN inv : j # i => inv[j].conn # inv[i].conn
               ELSE inv[i].conn = 0
          /\ BusyConns(pool) = {inv[i].conn : i \in DOMAIN inv} \ {0}
          /\ (\A i \in DOMAIN inv : inv[i].outcome # "running") => BusyConns(pool) = {})
    /\ [][\A i \in DOMAIN inv :
            /\ (inv[i].pc \in {"set", "query", "reset"} /\ inv'[i].pc # inv[i].pc)
                 => << inv[i].pc, inv'[i].pc >> \in
                       {<< "set", "query" >>, << "set", "reset" >>,
                        << "query", "reset" >>, << "reset", "done" >>}
            /\ (inv[i].pc = "reset" /\ inv'[i].pc = "done")
                 => /\ inv'[i].outcome = "returned"
                    /\ pool.conns[inv[i].conn].st = "busy"
                    /\ pool'.conns[inv[i].conn].st # "busy"
            /\ \A c \in ConnIds :
                 (inv[i].conn = c /\ pool.conns[c].st = "busy" /\ pool'.conns[c].st # "busy")
                    => (inv[i].pc = "reset" /\ inv'[i].pc = "done")]_vars

C14_Witness ==
    \E i \in DOMAIN inv, c \in ConnIds :
        /\ inv[i].tool = "sql_query" /\ inv[i].outcome = "returned"
        /\ inv[i].resp.message = "SET failed"
        /\ pool.conns[c] = [st |-> "idle", stmt |-> 0]
        /\ \E j \in DOMAIN inv : inv[j].pc = "query"

\* C15: a clickhouse_query invocation uses the shared client exactly when its
\* resolved timeout is 30000 ms, and else a fresh client whose request_timeout
\* is its own timeout; when it has returned, its fresh client is closed; the
\* shared client is closed by closeClickhouse alone.
C15_SharedOrFreshClient ==
    /\ [](\A i \in Inv :
            inv[i].tool = "clickhouse_query" =>
                /\ inv[i].client = "shared"
                     => /\ inv[i].timeout = DEFAULT_TIMEOUT_MS
                        /\ inv[i].request_timeout = DEFAULT_TIMEOUT_MS
                /\ inv[i].client \in {"fresh", "closed"}
                     => /\ inv[i].timeout # DEFAULT_TIMEOUT_MS
                        /\ inv[i].request_timeout = inv[i].timeout
                /\ inv[i].outcome = "running" =>
                     /\ inv[i].client \in {"shared", "fresh"}
                     /\ inv[i].client = "shared" => ch = "open" \/ shut.shuttingDown
                /\ inv[i].outcome = "returned" => inv[i].client \in {"shared", "closed"})
    /\ [][/\ (ch = "open" /\ ch' # "open")
               => (shut.pc = "clickhouse" /\ shut'.pc = "bigquery")
          /\ \A i \in Inv :
               (inv[i].outcome = "running" /\ inv[i].client = "fresh"
                  /\ inv'[i].client # "fresh")
                  => (inv[i].pc = "close" /\ inv'[i].client = "closed")]_vars

C15_Witness ==
    \E i \in Inv :
        /\ inv[i].tool = "clickhouse_query" /\ inv[i].outcome = "returned"
        /\ inv[i].client = "closed" /\ inv[i].timeout = 5000
        /\ inv[i].resp.isError

\* C16 as stated: once a shutdown trigger has fired, the process exits only
\* at the end of the sequence, with the code of the first trigger.
C16_ExitsWithFirstCode ==
    (shut.shuttingDown /\ ~Alive) => (shut.pc = "done" /\ proc.exitCode = shut.code)

\* C16: under any triggers the shutdown sequence starts at most once and keeps
\* the code of its first trigger; server.close, closePostgres, closeClickhouse
\* and closeBigquery are awaited once each in that order, whether or not a hook
\* failed; the process exits with that code at the end of the sequence, unless
\* start-up fails first (verifyReadOnly or server.connect), which exits with 1.
C16_ShutdownOnce ==
    /\ [](/\ shut.shuttingDown <=> shut.pc # "none"
          /\ proc.exitCause = "shutdown"
               => (shut.pc = "done" /\ proc.exitCode = shut.code)
          /\ shut.pc = "done" => proc.exitCause = "shutdown"
          /\ (shut.shuttingDown /\ ~Alive /\ proc.exitCause # "shutdown")
               => (proc.exitCause \in {"verifyReadOnly", "connect"} /\ proc.exitCode = 1)
          /\ (Alive /\ shut.pc = "server") => ENABLED ShutServer
          /\ (Alive /\ shut.pc = "postgres") => ENABLED ShutPostgres
          /\ (Alive /\ shut.pc = "clickhouse") => ENABLED ShutClickhouse
          /\ (Alive /\ shut.pc = "bigquery") => ENABLED ShutBigquery)
    /\ [][/\ shut.shuttingDown => (shut'.shuttingDown /\ shut'.code = shut.code)
          /\ shut'.pc # shut.pc =>
               << shut.pc, shut'.pc >> \in
                   {<< "none", "server" >>, << "server", "postgres" >>,
                    << "postgres", "clickhouse" >>, << "clickhouse", "bigquery" >>,
                    << "bigquery", "done" >>}]_vars

C16_Witness ==
    /\ proc.exitCause = "shutdown" /\ proc.exitCode = 1 /\ shut.pc = "done"
    /\ pool.state = "ending" /\ ch = "open"

\* C17: however the formatting calls of the processes interleave, a sweep
\* unlinks only entries whose mtime is more than MAX_AGE_MS before the sweep's
\* own clock reading; the file a response names exists when the response is
\* returned and for the hour that follows.
C17_FreshFilesSurvive ==
    /\ \A p \in Sweepers :
         \A d \in sw[p].deleted : sw[p].clock - d[2] > MAX_AGE_MS
    /\ \A p \in Sweepers :
         (sw[p].filepath # NoFile /\ now - sw[p].filepath.ts <= MAX_AGE_MS)
            => (sw[p].filepath \in DOMAIN files /\ ~sw[p].threw)

C17_Witness ==
    \E p \in Sweepers, q \in Sweepers :
        /\ p # q
        /\ sw[p].pc = "done" /\ sw[p].filepath # NoFile
        /\ now = sw[p].filepath.ts + MAX_AGE_MS
        /\ sw[q].pc \in {"swept", "done"} /\ sw[q].clock = now
        /\ sw[p].filepath \in sw[q].listing \ sw[q].failed
        /\ sw[q].deleted # {}

\* C18: while the caller's SQL of a sql_query invocation executes, the
\* invocation holds its connection alone and the session's statement_timeout
\* is the invocation's own resolved timeout; the SQL starts only when the
\* invocation's own SET succeeded, and after a failed SET it never starts.
C18_OwnTimeoutGoverns ==
    /\ [](\A i \in DOMAIN inv :
            (inv[i].tool = "sql_query" /\ inv[i].pc = "query") =>
                /\ inv[i].conn \in ConnIds
                /\ pool.conns[inv[i].conn].st = "busy"
                /\ \A j \in DOMAIN inv : j # i => inv[j].conn # inv[i].conn
                /\ pool.conns[inv[i].conn].stmt = inv[i].timeout
                /\ inv[i].timeout \in MIN_TIMEOUT_MS..MAX_TIMEOUT_MS)
    /\ [][\A i \in DOMAIN inv :
            /\ (inv'[i].tool = "sql_query" /\ inv'[i].pc = "query" /\ inv[i].pc # "query")
                 => /\ inv[i].pc = "set"
                    /\ inv'[i].conn = inv[i].conn
                    /\ pool'.conns[inv[i].conn].stmt = inv[i].timeout
            /\ (inv[i].tool = "sql_query" /\ inv[i].pc = "set"
                  /\ inv'[i].pc \notin {"set", "query"})
                 => /\ inv'[i].pc = "reset"
                    /\ inv'[i].pending.isError
            /\ (inv[i].tool = "sql_query" /\ inv[i].pc = "reset")
                 => inv'[i].pc \in {"reset", "done"}]_vars

C18_Witness ==
    \E i \in DOMAIN inv, j \in DOMAIN inv :
        /\ i # j /\ pool.state = "open"
        /\ inv[j].tool = "sql_query" /\ inv[j].outcome = "returned"
        /\ inv[i].tool = "sql_query" /\ inv[i].pc = "query"
        /\ inv[i].timeout # inv[j].timeout
        /\ \A c \in ConnIds \ {inv[i].conn} : pool.conns[c].st = "absent"

\* C19: the max_execution_time a clickhouse_query invocation sends is the
\* whole number of seconds in its resolved timeout, between 1 and 300, and is
\* not longer than the request_timeout of the client it uses.
C19_ExecutionTimeInRange ==
    \A i \in Inv :
        (inv[i].tool = "clickhouse_query" /\ inv[i].client # "none") =>
            LET m == inv[i].max_execution_time
            IN  /\ m \in 1..300
                /\ m * 1000 <= inv[i].timeout
                /\ inv[i].timeout < (m + 1) * 1000
                /\ m * 1000 <= inv[i].request_timeout
                /\ inv[i].request_timeout =
                     IF inv[i].client = "shared" THEN 30000 ELSE inv[i].timeout

C19_Witness ==
    \E i \in Inv :
        /\ inv[i].tool = "clickhouse_query" /\ inv[i].pc = "query"
        /\ inv[i].client = "fresh"
        /\ inv[i].timeout = MIN_TIMEOUT_MS /\ inv[i].max_execution_time = 1

====
